---- MODULE Spec2Model ----
(***************************************************************************)
(* The ESNIKeys record codec of go-esni: the record marshal/unmarshal,     *)
(* its SHA-256 checksum, the key share list, cipher suite list and         *)
(* extension list codecs, the Address Set extension and the extension      *)
(* type registry.  Bytes are naturals 0..255, byte strings are sequences   *)
(* of bytes, and every codec is computed byte by byte as the Go code       *)
(* computes it.                                                            *)
(***************************************************************************)
EXTENDS Integers, Sequences, FiniteSets, TLC

VARIABLES
    ExtensionType_generator, \* registry: type identifier -> constructor
    ExtensionType_name,      \* registry: type identifier -> name
    keys,                    \* the *Keys that UnmarshalBinary writes into
    rec,                     \* the Keys the caller built and marshalled last
    wire,                    \* the bytes MarshalBinary returned for rec, kept by the caller
    accepted,                \* whether UnmarshalBinary(wire) returned nil
    op,                      \* the operation that ran last
    arg,                     \* its input, as the caller passed it
    ret,                     \* the value it returned, Nil when none
    err,                     \* the error it returned: NoErr, an error chain, or a panic
    b                        \* the caller's buffer after UnmarshalBinary returned

vars == <<ExtensionType_generator, ExtensionType_name, keys, rec, wire, accepted,
          op, arg, ret, err, b>>

(***************************************************************************)
(* Bounds of the model.                                                    *)
(***************************************************************************)
MaxKeyShares == 2   \* entries of a key share list a caller builds
MaxKeyLen == 1      \* bytes of key exchange per entry
MaxAddresses == 2   \* addresses of an Address Set
MaxSuites == 2      \* cipher suites of a record
MaxStream == 3      \* entries of a key share byte stream handed to the list decoder
MaxExtraTypes == 1  \* extension types registered besides the Address Set

(***************************************************************************)
(* Program constants.                                                      *)
(***************************************************************************)
VersionDraft01 == 65281
VersionDraft03 == 65282
ExtensionTypeAddressSet == 4097
mandatoryExtensionMask == 4096
IPv4len == 4
IPv6len == 16
GroupECP256R1 == 23
GroupSECP384R1 == 24
GroupSECP521R1 == 25
GroupX25519 == 29
GroupX448 == 30
CipherSuite_TLS_AES_128_GCM_SHA256 == 4865
CipherSuite_TLS_AES_256_GCM_SHA384 == 4866
CipherSuite_TLS_CHACHA20_POLY1305_SHA256 == 4867
CipherSuite_TLS_AES_128_CCM_SHA256 == 4868
HeaderLen == 6

Nil == <<>>

(***************************************************************************)
(* Errors.  An error is the chain of its messages, outermost first, as     *)
(* errors.Wrap builds it; NoErr is the nil error.  A panic is kept as an   *)
(* error chain headed by Panic, so that a caller's view of the call is one *)
(* value.                                                                  *)
(***************************************************************************)
NoErr == <<>>
Panic == "panic"
ErrChecksumMismatch == "calculated checksum did not match received checksum"
ErrUnsupportedExtensionType == "unsupported extension type"
ErrUnexpectedEOF == "unexpected EOF"
ErrEOF == "EOF"

\* errors.New(msg)
New(msg) == <<msg>>

\* a run-time panic with the given message
PanicWith(msg) == <<Panic, msg>>

IsPanic(e) == e # NoErr /\ e[1] = Panic

\* errors.Wrap(e, msg); a nil error stays nil, and a panic unwinds through
\* the callers unchanged
Wrap(e, msg) == IF e = NoErr \/ IsPanic(e) THEN e ELSE <<msg>> \o e

\* errors.Cause(e): the innermost error
Cause(e) == e[Len(e)]

(***************************************************************************)
(* Byte strings.                                                           *)
(***************************************************************************)
Min(x, y) == IF x < y THEN x ELSE y

\* s[from:] of Go, from counted from 0; empty when from >= len(s)
SliceFrom(s, from) == SubSeq(s, from + 1, Len(s))

\* s[from:to] of Go
Slice(s, from, to) == SubSeq(s, from + 1, to)

\* make([]byte, n)
Zeros(n) == SubSeq([i \in 1..n |-> 0], 1, n)

\* copy(dst[at:], src): min(len(dst)-at, len(src)) bytes are copied
Copy(dst, at, src) ==
    LET n == Min(Len(dst) - at, Len(src))
    IN SubSeq(dst, 1, at) \o SubSeq(src, 1, n) \o SubSeq(dst, at + n + 1, Len(dst))

\* binary.BigEndian.PutUint16 / binary.Write of a uint16
PutUint16(v) == <<(v \div 256) % 256, v % 256>>

\* binary.BigEndian.Uint16(s[at:]), defined when two bytes are there
Uint16(s, at) == s[at + 1] * 256 + s[at + 2]

(***************************************************************************)
(* SHA-256 (crypto/sha256.Sum256), on 32-bit words kept as two 16-bit      *)
(* halves <<hi, lo>>.                                                      *)
(***************************************************************************)
XorBit(x, y) == (x + y) % 2

Xor4(x, y) ==
    XorBit(x % 2, y % 2) + 2 * XorBit((x \div 2) % 2, (y \div 2) % 2)
    + 4 * XorBit((x \div 4) % 2, (y \div 4) % 2) + 8 * XorBit(x \div 8, y \div 8)

And4(x, y) ==
    (x % 2) * (y % 2) + 2 * (((x \div 2) % 2) * ((y \div 2) % 2))
    + 4 * (((x \div 4) % 2) * ((y \div 4) % 2)) + 8 * ((x \div 8) * (y \div 8))

XorTab == [x \in 0..15 |-> [y \in 0..15 |-> Xor4(x, y)]]

AndTab == [x \in 0..15 |-> [y \in 0..15 |-> And4(x, y)]]

Xor16(x, y) ==
    XorTab[x \div 4096][y \div 4096] * 4096
    + XorTab[(x \div 256) % 16][(y \div 256) % 16] * 256
    + XorTab[(x \div 16) % 16][(y \div 16) % 16] * 16
    + XorTab[x % 16][y % 16]

And16(x, y) ==
    AndTab[x \div 4096][y \div 4096] * 4096
    + AndTab[(x \div 256) % 16][(y \div 256) % 16] * 256
    + AndTab[(x \div 16) % 16][(y \div 16) % 16] * 16
    + AndTab[x % 16][y % 16]

WXor(x, y) == <<Xor16(x[1], y[1]), Xor16(x[2], y[2])>>

WAnd(x, y) == <<And16(x[1], y[1]), And16(x[2], y[2])>>

WNot(x) == <<65535 - x[1], 65535 - x[2]>>

WAdd(x, y) ==
    LET lo == x[2] + y[2]
    IN <<(x[1] + y[1] + lo \div 65536) % 65536, lo % 65536>>

\* bits.RotateLeft32(x, -n)
RotR(x, n) ==
    LET h == IF n >= 16 THEN x[2] ELSE x[1]
        l == IF n >= 16 THEN x[1] ELSE x[2]
        m == IF n >= 16 THEN n - 16 ELSE n
        p == 2 ^ m
        q == 2 ^ (16 - m)
    IN <<(h \div p + (l % p) * q) % 65536, (l \div p + (h % p) * q) % 65536>>

\* x >> n, n < 16
ShR(x, n) ==
    LET p == 2 ^ n
        q == 2 ^ (16 - n)
    IN <<x[1] \div p, (x[2] \div p + (x[1] % p) * q) % 65536>>

sha256K ==
  <<<<17034, 12184>>, <<28983, 17553>>, <<46528, 64463>>, <<59829, 56229>>,
    <<14678, 49755>>, <<23025, 4593>>, <<37439, 33444>>, <<43804, 24277>>,
    <<55303, 43672>>, <<4739, 23297>>, <<9265, 34238>>, <<21772, 32195>>,
    <<29374, 23924>>, <<32990, 45566>>, <<39900, 1703>>, <<49563, 61812>>,
    <<58523, 27073>>, <<61374, 18310>>, <<4033, 40390>>, <<9228, 41420>>,
    <<11753, 11375>>, <<19060, 33962>>, <<23728, 43484>>, <<30457, 35034>>,
    <<38974, 20818>>, <<43057, 50797>>, <<45059, 10184>>, <<48985, 32711>>,
    <<50912, 3059>>, <<54695, 37191>>, <<1738, 25425>>, <<5161, 10599>>,
    <<10167, 2693>>, <<11803, 8504>>, <<19756, 28156>>, <<21304, 3347>>,
    <<25866, 29524>>, <<30314, 2747>>, <<33218, 51502>>, <<37490, 11397>>,
    <<41663, 59553>>, <<43034, 26187>>, <<49739, 35696>>, <<51052, 20899>>,
    <<53650, 59417>>, <<54937, 1572>>, <<62478, 13701>>, <<4202, 41072>>,
    <<6564, 49430>>, <<7735, 27656>>, <<10056, 30540>>, <<13488, 48309>>,
    <<14620, 3251>>, <<20184, 43594>>, <<23452, 51791>>, <<26670, 28659>>,
    <<29839, 33518>>, <<30885, 25455>>, <<33992, 30740>>, <<36039, 520>>,
    <<37054, 65530>>, <<42064, 27883>>, <<48889, 41975>>, <<50801, 30962>>>>

sha256H0 ==
  <<<<27145, 58983>>, <<47975, 44677>>, <<15470, 62322>>, <<42319, 62778>>,
    <<20750, 21119>>, <<39685, 26764>>, <<8067, 55723>>, <<23520, 52505>>>>

\* the message padded to whole 64-byte blocks: 0x80, zeros, the bit length
sha256Pad(msg) ==
    LET n == Len(msg)
        z == (119 - (n % 64)) % 64
        bits == n * 8
    IN msg \o <<128>> \o Zeros(z) \o <<0, 0, 0, 0>>
       \o <<(bits \div 16777216) % 256, (bits \div 65536) % 256,
            (bits \div 256) % 256, bits % 256>>

\* the 16 big-endian words of block k (from 0) of the padded message p
sha256Words(p, k) ==
    [t \in 1..16 |->
        LET o == 64 * k + 4 * (t - 1)
        IN <<p[o + 1] * 256 + p[o + 2], p[o + 3] * 256 + p[o + 4]>>]

\* w[t] from w[t-2], w[t-7], w[t-15], w[t-16]
sha256Next(v1, v7, v15, v16) ==
    LET t1 == WXor(WXor(RotR(v1, 17), RotR(v1, 19)), ShR(v1, 10))
        t2 == WXor(WXor(RotR(v15, 7), RotR(v15, 18)), ShR(v15, 3))
    IN WAdd(WAdd(t1, v7), WAdd(t2, v16))

\* the message schedule w extended by its next n words, n >= 1; the first
\* half of the words is bound to its value before the second half reads it
RECURSIVE sha256Extend(_, _)
sha256Extend(w, n) ==
    IF n = 1
    THEN LET m == Len(w)
         IN Append(w, sha256Next(w[m - 1], w[m - 6], w[m - 14], w[m - 15]))
    ELSE CHOOSE r \in {sha256Extend(w1, n - (n \div 2)) : w1 \in {sha256Extend(w, n \div 2)}} :
             TRUE

\* the message schedule w[0..63] of a block of 16 words
sha256Schedule(w) == sha256Extend(w, 48)

\* one round of the compression function on the working variables s = a..h
sha256Round(s, w, t) ==
    LET a == s[1]
        e == s[5]
        S1 == WXor(WXor(RotR(e, 6), RotR(e, 11)), RotR(e, 25))
        ch == WXor(WAnd(e, s[6]), WAnd(WNot(e), s[7]))
        t1 == WAdd(WAdd(WAdd(s[8], S1), WAdd(ch, sha256K[t])), w[t])
        S0 == WXor(WXor(RotR(a, 2), RotR(a, 13)), RotR(a, 22))
        maj == WXor(WXor(WAnd(a, s[2]), WAnd(a, s[3])), WAnd(s[2], s[3]))
        t2 == WAdd(S0, maj)
    IN <<WAdd(t1, t2), a, s[2], s[3], WAdd(s[4], t1), e, s[6], s[7]>>

\* rounds lo..hi of the compression function; the first half of the rounds
\* is bound to its value before the second half reads it
RECURSIVE sha256RoundsFrom(_, _, _, _)
sha256RoundsFrom(s, w, lo, hi) ==
    IF lo = hi THEN sha256Round(s, w, lo)
    ELSE LET mid == (lo + hi) \div 2
         IN CHOOSE r \in {sha256RoundsFrom(s1, w, mid + 1, hi) :
                            s1 \in {sha256RoundsFrom(s, w, lo, mid)}} : TRUE

\* the 64 rounds
sha256Rounds(s, w) == sha256RoundsFrom(s, w, 1, 64)

\* the digest state after blocks k.. of the padded message p
RECURSIVE sha256Blocks(_, _, _)
sha256Blocks(h, p, k) ==
    IF 64 * k >= Len(p) THEN h
    ELSE LET w == sha256Schedule(sha256Words(p, k))
             s == sha256Rounds(h, w)
         IN sha256Blocks([i \in 1..8 |-> WAdd(h[i], s[i])], p, k + 1)

\* sha256.Sum256(msg)[:4]: the first four bytes of the digest
Sum256Prefix(msg) ==
    LET h == sha256Blocks(sha256H0, sha256Pad(msg), 0)
    IN <<h[1][1] \div 256, h[1][1] % 256, h[1][2] \div 256, h[1][2] % 256>>

(***************************************************************************)
(* Key share entries (entry.go).  An entry is [Group, KeyExchange].        *)
(***************************************************************************)
\* KeyShareEntry.Size
KeyShareEntry_Size(entry) == ((Len(entry.KeyExchange) % 65536) + 4) % 65536

\* KeyShareEntry.MarshalBinary: the bytes and the error.  Size() is a uint16:
\* for a key exchange of 65532 bytes or more it wraps, and data[0:2] or
\* data[2:4] of a slice of fewer than 4 bytes panics.
KeyShareEntry_MarshalBinary(entry) ==
    IF KeyShareEntry_Size(entry) < 4
    THEN [data |-> Nil, err |-> PanicWith("slice bounds out of range")]
    ELSE LET data == Zeros(KeyShareEntry_Size(entry))
             d1 == Copy(data, 0, PutUint16(entry.Group))
             d2 == Copy(d1, 2, PutUint16(Len(entry.KeyExchange) % 65536))
         IN [data |-> Copy(d2, 4, entry.KeyExchange), err |-> NoErr]

\* KeyShareEntry.UnmarshalBinary: the entry read from the head of data
KeyShareEntry_UnmarshalBinary(data) ==
    IF Len(data) < 4
    THEN [entry |-> [Group |-> 0, KeyExchange |-> Nil],
          err |-> Wrap(New(ErrUnexpectedEOF), "buffer is too small for key share entry")]
    ELSE LET keyLen == Uint16(data, 2)
         IN IF Len(data) < keyLen + 4
            THEN [entry |-> [Group |-> Uint16(data, 0), KeyExchange |-> Nil],
                  err |-> Wrap(New(ErrUnexpectedEOF), "buffer is too small for key exchange")]
            ELSE IF (keyLen + 4) % 65536 < 4
            THEN \* data[4:keyLen+4]: keyLen+4 wraps in uint16 to less than 4
                 [entry |-> [Group |-> Uint16(data, 0), KeyExchange |-> Zeros(keyLen)],
                  err |-> PanicWith("slice bounds out of range")]
            ELSE [entry |-> [Group |-> Uint16(data, 0),
                             KeyExchange |-> Copy(Zeros(keyLen), 0,
                                                  Slice(data, 4, (keyLen + 4) % 65536))],
                  err |-> NoErr]

\* KeyShareEntryList.Size
RECURSIVE KeyShareEntryList_Size(_)
KeyShareEntryList_Size(list) ==
    IF list = <<>> THEN 0
    ELSE (KeyShareEntryList_Size(SubSeq(list, 1, Len(list) - 1))
          + KeyShareEntry_Size(list[Len(list)])) % 65536

\* KeyShareEntryList.Contains
KeyShareEntryList_Contains(list, entry) ==
    \E i \in 1..Len(list) : list[i].Group = entry.Group

\* the loop of KeyShareEntryList.MarshalBinary from entry i, writing at pos
RECURSIVE KeyShareEntryList_MarshalFrom(_, _, _, _)
KeyShareEntryList_MarshalFrom(list, i, data, pos) ==
    IF i > Len(list) THEN [data |-> data, err |-> NoErr]
    ELSE LET entry == KeyShareEntry_MarshalBinary(list[i])
             n == Min(Len(data) - pos, Len(entry.data))
         IN IF entry.err # NoErr
            THEN [data |-> Nil, err |-> Wrap(entry.err, "marshal key share entry")]
            ELSE KeyShareEntryList_MarshalFrom(list, i + 1, Copy(data, pos, entry.data),
                                               pos + n)

\* KeyShareEntryList.MarshalBinary
KeyShareEntryList_MarshalBinary(list) ==
    KeyShareEntryList_MarshalFrom(list, 1, Zeros(KeyShareEntryList_Size(list)), 0)

\* how far the read cursor moves after one decoded entry
KeyShareEntryList_Advance(entry) == KeyShareEntry_Size(entry) + 1

\* the loop of KeyShareEntryList.UnmarshalBinary from cursor pos
RECURSIVE KeyShareEntryList_UnmarshalFrom(_, _, _)
KeyShareEntryList_UnmarshalFrom(list, data, pos) ==
    IF pos >= Len(data) THEN [list |-> list, err |-> NoErr]
    ELSE LET r == KeyShareEntry_UnmarshalBinary(SliceFrom(data, pos))
         IN IF r.err # NoErr
            THEN [list |-> list, err |-> Wrap(r.err, "unmarshal key share entry")]
            ELSE IF KeyShareEntryList_Contains(list, r.entry)
            THEN [list |-> list, err |-> New("duplicate key share group")]
            ELSE KeyShareEntryList_UnmarshalFrom(Append(list, r.entry), data,
                                                 pos + KeyShareEntryList_Advance(r.entry))

\* KeyShareEntryList.UnmarshalBinary: the list after the call, and the error
KeyShareEntryList_UnmarshalBinary(list, data) ==
    KeyShareEntryList_UnmarshalFrom(list, data, 0)

(***************************************************************************)
(* The Address Set extension (extensions.go).  An IP is its 4 or 16 bytes; *)
(* an AddressSet is [Addresses].                                           *)
(***************************************************************************)
\* net.IP.To4: the 4-byte form of an IPv4 address, Nil when it is none
To4(ip) ==
    IF Len(ip) = IPv4len THEN ip
    ELSE IF Len(ip) = IPv6len
            /\ \A i \in 1..10 : ip[i] = 0
            /\ ip[11] = 255 /\ ip[12] = 255
    THEN SubSeq(ip, 13, 16)
    ELSE Nil

\* AddressSet.Size
RECURSIVE AddressSet_Size(_)
AddressSet_Size(set) ==
    IF set.Addresses = <<>> THEN 0
    ELSE LET n == Len(set.Addresses)
         IN (AddressSet_Size([Addresses |-> SubSeq(set.Addresses, 1, n - 1)]) + 1
             + (IF To4(set.Addresses[n]) # Nil THEN IPv4len ELSE IPv6len)) % 65536

\* bytes.NewBuffer(make([]byte, n)): the buffer's contents before any write
NewBuffer(n) == Zeros(n)

\* the writes of AddressSet.MarshalBinary for addresses i..
RECURSIVE AddressSet_Writes(_, _)
AddressSet_Writes(set, i) ==
    IF i > Len(set.Addresses) THEN <<>>
    ELSE (IF To4(set.Addresses[i]) # Nil
          THEN <<4>> \o To4(set.Addresses[i])
          ELSE <<6>> \o set.Addresses[i])
         \o AddressSet_Writes(set, i + 1)

\* AddressSet.MarshalBinary
AddressSet_MarshalBinary(set) ==
    NewBuffer(AddressSet_Size(set)) \o AddressSet_Writes(set, 1)

\* the loop of AddressSet.UnmarshalBinary from cursor pos
RECURSIVE AddressSet_UnmarshalFrom(_, _, _)
AddressSet_UnmarshalFrom(set, data, pos) ==
    IF pos >= Len(data) THEN [set |-> set, err |-> NoErr]
    ELSE IF data[pos + 1] = 4
    THEN AddressSet_UnmarshalFrom(
             [Addresses |-> Append(set.Addresses,
                                   Copy(Zeros(IPv4len), 0, SliceFrom(data, pos + 1)))],
             data, pos + IPv4len + 1)
    ELSE IF data[pos + 1] = 6
    THEN AddressSet_UnmarshalFrom(
             [Addresses |-> Append(set.Addresses,
                                   Copy(Zeros(IPv6len), 0, SliceFrom(data, pos + 1)))],
             data, pos + IPv6len + 1)
    ELSE [set |-> set, err |-> New("unsupported address type")]

\* AddressSet.UnmarshalBinary: the set after the call, and the error
AddressSet_UnmarshalBinary(set, data) == AddressSet_UnmarshalFrom(set, data, 0)

(***************************************************************************)
(* The extension type registry and the extension list (extension.go).      *)
(* A constructor is named by the type it builds; the only extension type   *)
(* of the package is the Address Set.                                      *)
(***************************************************************************)
\* func() Extension { return new(AddressSet) }
NewAddressSet == "new(AddressSet)"

\* a constructor of the same extension that a caller of the package passes
OtherGenerator == "func() Extension { return &AddressSet{} }"

\* the nil func() Extension
NilGenerator == "nil"

\* calling a registered constructor
Construct(gen) == [Addresses |-> <<>>]

\* the registry after package init (extensions.go, init)
InitGenerator == (ExtensionTypeAddressSet :> NewAddressSet)

InitName == (ExtensionTypeAddressSet :> "address_set")

\* ExtensionType.Generator: the constructor, nil when the type is not registered
Generator(generator, extType) ==
    IF extType \in DOMAIN generator THEN generator[extType] ELSE NilGenerator

\* ExtensionType.String
ExtensionType_String(name, extType) ==
    IF extType \in DOMAIN name THEN name[extType] ELSE "UNKNOWN"

\* ExtensionType.Mandatory: extType & mask == mask, the mask being one bit
Mandatory(extType) == (extType \div mandatoryExtensionMask) % 2 = 1

\* Extension.Type, Size and MarshalBinary of a list element (an *AddressSet)
Extension_Type(ext) == ExtensionTypeAddressSet

\* ExtensionList.Size
RECURSIVE ExtensionList_Size(_)
ExtensionList_Size(list) ==
    IF list = <<>> THEN 0
    ELSE (ExtensionList_Size(SubSeq(list, 1, Len(list) - 1)) + 2
          + AddressSet_Size(list[Len(list)])) % 65536

\* the writes of ExtensionList.MarshalBinary for extensions i..
RECURSIVE ExtensionList_Writes(_, _)
ExtensionList_Writes(list, i) ==
    IF i > Len(list) THEN <<>>
    ELSE PutUint16(Extension_Type(list[i])) \o AddressSet_MarshalBinary(list[i])
         \o ExtensionList_Writes(list, i + 1)

\* ExtensionList.MarshalBinary
ExtensionList_MarshalBinary(list) ==
    NewBuffer(ExtensionList_Size(list)) \o ExtensionList_Writes(list, 1)

\* the loop of ExtensionList.UnmarshalBinary from cursor pos
RECURSIVE ExtensionList_UnmarshalFrom(_, _, _, _)
ExtensionList_UnmarshalFrom(list, data, pos, generator) ==
    IF pos >= Len(data) THEN [list |-> list, err |-> NoErr]
    ELSE IF Len(data) - pos < 2
    THEN [list |-> list, err |-> PanicWith("index out of range")]
    ELSE LET extType == Uint16(data, pos)
             gen == Generator(generator, extType)
         IN IF gen = NilGenerator
            THEN [list |-> list,
                  err |-> Wrap(New(ErrUnsupportedExtensionType),
                               "extension_type(" \o ToString(extType) \o ")")]
            ELSE LET r == AddressSet_UnmarshalBinary(Construct(gen), SliceFrom(data, pos + 2))
                 IN IF r.err # NoErr
                    THEN [list |-> list, err |-> Wrap(r.err, "unmarshal extension")]
                    ELSE ExtensionList_UnmarshalFrom(Append(list, r.set), data,
                                                     pos + AddressSet_Size(r.set) + 2,
                                                     generator)

\* ExtensionList.UnmarshalBinary: the list after the call, and the error
ExtensionList_UnmarshalBinary(list, data, generator) ==
    ExtensionList_UnmarshalFrom(list, data, 0, generator)

(***************************************************************************)
(* The Keys record (keys.go).  A record is [Version, Checksum, PublicName, *)
(* Keys, CipherSuites, PaddedLength, NotBefore, NotAfter, Extensions].     *)
(* A time.Time is <<s>> for time.Unix(s, 0) and <<>> for the zero Time.    *)
(* An int64 is its four 16-bit words, two's complement, the high word      *)
(* first: second counts such as that of the zero Time are outside the      *)
(* range of the integers of the model.                                     *)
(***************************************************************************)
\* the int64 of an integer s of the model
Int64Of(s) ==
    IF s >= 0 THEN <<0, 0, s \div 65536, s % 65536>>
    ELSE <<65535, 65535, ((s + 2147483647 + 1) \div 65536) + 32768,
           (s + 2147483647 + 1) % 65536>>

\* time.Unix(s, 0) for an int64 s
TimeUnix(s) == <<s>>

\* time.Time{}
ZeroTime == <<>>

\* time.Time{}.Unix(): -62135596800, the seconds from January 1 of year 1 to
\* 1970, as an int64 (ff ff ff f1 88 6e 09 00)
ZeroTimeUnix == <<65535, 65521, 34926, 2304>>

\* time.Time.Unix
Unix(t) == IF t = ZeroTime THEN ZeroTimeUnix ELSE t[1]

\* new(Keys): the zero-valued record
ZeroKeys ==
    [Version |-> 0, Checksum |-> <<0, 0, 0, 0>>, PublicName |-> <<>>, Keys |-> <<>>,
     CipherSuites |-> <<>>, PaddedLength |-> 0, NotBefore |-> ZeroTime,
     NotAfter |-> ZeroTime, Extensions |-> <<>>]

\* binary.Write of uint64(s) for an int64 s: the bits of s, big-endian
PutUint64(s) == PutUint16(s[1]) \o PutUint16(s[2]) \o PutUint16(s[3]) \o PutUint16(s[4])

\* int64(binary.BigEndian.Uint64(p))
Int64(p) == <<Uint16(p, 0), Uint16(p, 2), Uint16(p, 4), Uint16(p, 6)>>

\* io.ReadFull on a bytes.Reader over s at offset i, for n bytes
ReadFull(s, i, n) ==
    IF Len(s) - i >= n THEN [p |-> Slice(s, i, i + n), i |-> i + n, err |-> NoErr]
    ELSE IF Len(s) - i <= 0 THEN [p |-> Nil, i |-> i, err |-> New(ErrEOF)]
    ELSE [p |-> Nil, i |-> Len(s), err |-> New(ErrUnexpectedEOF)]

\* bytes.Reader.Read into make([]byte, n): EOF only when nothing is left;
\* a short read leaves the rest of the destination zero
Read(s, i, n) ==
    IF i >= Len(s) THEN [p |-> Zeros(n), i |-> i, err |-> New(ErrEOF)]
    ELSE [p |-> Copy(Zeros(n), 0, SliceFrom(s, i)),
          i |-> i + Min(n, Len(s) - i), err |-> NoErr]

\* a marshalPublicName that writes the name whatever the version
Keys_marshalPublicNameUngated(k) ==
    IF Len(k.PublicName) = 0 THEN [out |-> <<>>, err |-> New("public name is empty")]
    ELSE [out |-> <<Len(k.PublicName)>> \o k.PublicName, err |-> NoErr]

\* Keys.marshalPublicName: the bytes written
Keys_marshalPublicName(k) ==
    IF k.Version < VersionDraft03 THEN [out |-> <<>>, err |-> NoErr]
    ELSE IF Len(k.PublicName) = 0 THEN [out |-> <<>>, err |-> New("public name is empty")]
    ELSE IF Len(k.PublicName) > 255
    THEN [out |-> <<>>, err |-> New("public name is too large")]
    ELSE [out |-> <<Len(k.PublicName)>> \o k.PublicName, err |-> NoErr]

\* Keys.marshalKeyShareList
Keys_marshalKeyShareList(k) ==
    IF Len(k.Keys) = 0 THEN [out |-> <<>>, err |-> New("key share list is empty")]
    ELSE LET listData == KeyShareEntryList_MarshalBinary(k.Keys)
         IN IF listData.err # NoErr
            THEN [out |-> PutUint16(KeyShareEntryList_Size(k.Keys)), err |-> listData.err]
            ELSE [out |-> PutUint16(KeyShareEntryList_Size(k.Keys)) \o listData.data,
                  err |-> NoErr]

\* the writes of the loop of Keys.marshalCipherSuites for suites i..
RECURSIVE CipherSuites_Writes(_, _)
CipherSuites_Writes(suites, i) ==
    IF i > Len(suites) THEN <<>>
    ELSE PutUint16(suites[i]) \o CipherSuites_Writes(suites, i + 1)

\* Keys.marshalCipherSuites
Keys_marshalCipherSuites(k) ==
    [out |-> PutUint16((Len(k.CipherSuites) * 2) % 65536)
             \o CipherSuites_Writes(k.CipherSuites, 1),
     err |-> NoErr]

\* Keys.marshalValidityPeriod
Keys_marshalValidityPeriod(k) ==
    [out |-> PutUint64(Unix(k.NotBefore)) \o PutUint64(Unix(k.NotAfter)), err |-> NoErr]

\* Keys.marshalExtensions
Keys_marshalExtensions(k) ==
    [out |-> PutUint16(ExtensionList_Size(k.Extensions))
             \o (IF Len(k.Extensions) = 0 THEN <<>>
                 ELSE ExtensionList_MarshalBinary(k.Extensions)),
     err |-> NoErr]

\* a placeholder that writes what the record's Checksum field holds
ChecksumFieldAsPlaceholder(k) == k.Checksum

\* the four bytes written where the checksum goes, before the digest is taken
ChecksumPlaceholder(k) == <<0, 0, 0, 0>>

\* what the digest of MarshalBinary is taken over
MarshalDigestInput(final) == final

\* Keys.MarshalBinary: the bytes returned (Nil with an error) and the error
Keys_MarshalBinary(k) ==
    LET name == Keys_marshalPublicName(k)
        shares == Keys_marshalKeyShareList(k)
        suites == Keys_marshalCipherSuites(k)
        period == Keys_marshalValidityPeriod(k)
        exts == Keys_marshalExtensions(k)
    IN IF name.err # NoErr
       THEN [data |-> Nil, err |-> Wrap(name.err, "marshal public name")]
       ELSE IF shares.err # NoErr
       THEN [data |-> Nil, err |-> Wrap(shares.err, "marshal key share list")]
       ELSE LET final == PutUint16(k.Version) \o ChecksumPlaceholder(k) \o name.out
                         \o shares.out \o suites.out \o PutUint16(k.PaddedLength)
                         \o period.out \o exts.out
            IN [data |-> Copy(final, 2, Sum256Prefix(MarshalDigestInput(final))),
                err |-> NoErr]

\* Keys.unmarshalPublicName on the reader (s, i): the record, the reader's
\* offset and the error after the call
Keys_unmarshalPublicName(k, s, i) ==
    IF k.Version < VersionDraft03 THEN [keys |-> k, i |-> i, err |-> NoErr]
    ELSE IF i >= Len(s)
    THEN [keys |-> k, i |-> i, err |-> Wrap(New(ErrEOF), "read length")]
    ELSE LET nameLength == s[i + 1]
             name == Read(s, i + 1, nameLength)
         IN IF nameLength = 0
            THEN [keys |-> k, i |-> i + 1, err |-> New("public name is empty")]
            ELSE IF name.err # NoErr
            THEN [keys |-> k, i |-> name.i, err |-> name.err]
            ELSE [keys |-> [k EXCEPT !.PublicName = name.p], i |-> name.i, err |-> NoErr]

\* Keys.unmarshalKeyShareList
Keys_unmarshalKeyShareList(k, s, i) ==
    LET size == ReadFull(s, i, 2)
        listLen == Uint16(size.p, 0)
        data == Read(s, size.i, listLen)
        r == KeyShareEntryList_UnmarshalBinary(<<>>, data.p)
    IN IF size.err # NoErr
       THEN [keys |-> k, i |-> size.i, err |-> Wrap(size.err, "read key share list size")]
       ELSE IF listLen = 0
       THEN [keys |-> k, i |-> size.i, err |-> New("key share list is empty")]
       ELSE IF data.err # NoErr
       THEN [keys |-> k, i |-> data.i, err |-> Wrap(data.err, "read key share list")]
       ELSE [keys |-> [k EXCEPT !.Keys = r.list], i |-> data.i, err |-> r.err]

\* the loop of Keys.unmarshalCipherSuites: suites j.. (from 0) of n, read
\* into the zeroed slice
RECURSIVE CipherSuites_ReadFrom(_, _, _, _)
CipherSuites_ReadFrom(suites, j, s, i) ==
    IF j >= Len(suites) THEN [suites |-> suites, i |-> i, err |-> NoErr]
    ELSE LET suite == ReadFull(s, i, 2)
         IN IF suite.err # NoErr
            THEN [suites |-> suites, i |-> suite.i,
                  err |-> Wrap(suite.err, "read cipher suite " \o ToString(j))]
            ELSE CipherSuites_ReadFrom([suites EXCEPT ![j + 1] = Uint16(suite.p, 0)],
                                       j + 1, s, suite.i)

\* a length test that refuses nothing
AnySuitesLen(suitesLen) == FALSE

\* whether a cipher suite list of this byte length is refused
InvalidSuitesLen(suitesLen) == suitesLen % 2 # 0

\* Keys.unmarshalCipherSuites
Keys_unmarshalCipherSuites(k, s, i) ==
    LET size == ReadFull(s, i, 2)
        suitesLen == Uint16(size.p, 0)
        r == CipherSuites_ReadFrom(Zeros(suitesLen \div 2), 0, s, size.i)
    IN IF size.err # NoErr
       THEN [keys |-> k, i |-> size.i, err |-> Wrap(size.err, "read cipher suite list size")]
       ELSE IF InvalidSuitesLen(suitesLen)
       THEN [keys |-> k, i |-> size.i, err |-> New("invalid cipher suite list size")]
       ELSE [keys |-> [k EXCEPT !.CipherSuites = r.suites], i |-> r.i, err |-> r.err]

\* binary.Read(reader, binary.BigEndian, &keys.PaddedLength)
Keys_readPaddedLength(k, s, i) ==
    LET v == ReadFull(s, i, 2)
    IN IF v.err # NoErr THEN [keys |-> k, i |-> v.i, err |-> v.err]
       ELSE [keys |-> [k EXCEPT !.PaddedLength = Uint16(v.p, 0)], i |-> v.i, err |-> NoErr]

\* Keys.unmarshalValidityPeriod
Keys_unmarshalValidityPeriod(k, s, i) ==
    LET notBefore == ReadFull(s, i, 8)
        notAfter == ReadFull(s, notBefore.i, 8)
    IN IF notBefore.err # NoErr
       THEN [keys |-> k, i |-> notBefore.i, err |-> Wrap(notBefore.err, "read not before")]
       ELSE IF notAfter.err # NoErr
       THEN [keys |-> k, i |-> notAfter.i, err |-> Wrap(notAfter.err, "read not after")]
       ELSE [keys |-> [k EXCEPT !.NotBefore = TimeUnix(Int64(notBefore.p)),
                                !.NotAfter = TimeUnix(Int64(notAfter.p))],
             i |-> notAfter.i, err |-> NoErr]

\* Keys.unmarshalExtensions
Keys_unmarshalExtensions(k, s, i, generator) ==
    LET size == ReadFull(s, i, 2)
        extsLen == Uint16(size.p, 0)
        extsData == Read(s, size.i, extsLen)
        r == ExtensionList_UnmarshalBinary(<<>>, extsData.p, generator)
    IN IF size.err # NoErr
       THEN [keys |-> k, i |-> size.i,
             err |-> Wrap(size.err, "read extensions list length")]
       ELSE IF extsLen = 0 THEN [keys |-> k, i |-> size.i, err |-> NoErr]
       ELSE IF extsData.err # NoErr
       THEN [keys |-> k, i |-> extsData.i, err |-> Wrap(extsData.err, "read extensions list")]
       ELSE [keys |-> [k EXCEPT !.Extensions = r.list], i |-> extsData.i, err |-> r.err]

\* the n-th section read by Keys.UnmarshalBinary after the checksum
Keys_unmarshalSection(n, k, s, i, generator) ==
    CASE n = 1 -> Keys_unmarshalPublicName(k, s, i)
      [] n = 2 -> Keys_unmarshalKeyShareList(k, s, i)
      [] n = 3 -> Keys_unmarshalCipherSuites(k, s, i)
      [] n = 4 -> Keys_readPaddedLength(k, s, i)
      [] n = 5 -> Keys_unmarshalValidityPeriod(k, s, i)
      [] n = 6 -> Keys_unmarshalExtensions(k, s, i, generator)

\* what the error of the n-th section is wrapped in
Keys_sectionMessage ==
    <<"unmarshal public name", "unmarshal key share list", "unmarshal cipher suite list",
      "read padded length", "unmarshal validity period", "unmarshal extensions list">>

\* sections n.. of Keys.UnmarshalBinary, read in order from the reader (s, i);
\* the first error returns
RECURSIVE Keys_unmarshalSectionsFrom(_, _, _, _, _)
Keys_unmarshalSectionsFrom(n, k, s, i, generator) ==
    IF n > Len(Keys_sectionMessage) THEN [keys |-> k, err |-> NoErr]
    ELSE LET r == Keys_unmarshalSection(n, k, s, i, generator)
         IN IF r.err # NoErr
            THEN [keys |-> r.keys, err |-> Wrap(r.err, Keys_sectionMessage[n])]
            ELSE Keys_unmarshalSectionsFrom(n + 1, r.keys, s, r.i, generator)

\* the sections of Keys.UnmarshalBinary after the checksum, read from s = b[6:]
Keys_unmarshalSections(k, s, generator) == Keys_unmarshalSectionsFrom(1, k, s, 0, generator)

\* what the digest of UnmarshalBinary is taken over: the buffer, its checksum
\* bytes already zeroed
UnmarshalDigestInput(zeroed) == zeroed

\* a comparison that lets every checksum pass
Keys_checksumIgnored(checksum, sum) == TRUE

\* bytes.Compare(keys.Checksum[:], sum[:4]) == 0
Keys_checksumMatches(checksum, sum) == checksum = sum

\* Keys.UnmarshalBinary(b) on the record k: the record, the caller's buffer
\* and the error after the call
Keys_UnmarshalBinary(k, buf, generator) ==
    IF Len(buf) < 2
    THEN [keys |-> k, b |-> buf, err |-> PanicWith("index out of range")]
    ELSE LET k1 == [k EXCEPT !.Version = Uint16(buf, 0),
                             !.Checksum = Copy(k.Checksum, 0, SliceFrom(buf, 2))]
             zeroed == Copy(buf, 2, <<0, 0, 0, 0>>)
             sum == Sum256Prefix(UnmarshalDigestInput(zeroed))
         IN IF ~Keys_checksumMatches(k1.Checksum, sum)
            THEN [keys |-> k1, b |-> zeroed, err |-> New(ErrChecksumMismatch)]
            ELSE IF Len(zeroed) < HeaderLen
            THEN [keys |-> k1, b |-> zeroed, err |-> PanicWith("slice bounds out of range")]
            ELSE LET r == Keys_unmarshalSections(k1, SliceFrom(zeroed, HeaderLen), generator)
                 IN [keys |-> r.keys, b |-> zeroed, err |-> r.err]

(***************************************************************************)
(* The inputs of the model: what callers build and what peers send.        *)
(***************************************************************************)
GroupOrder == <<GroupX25519, GroupECP256R1, GroupSECP384R1, GroupSECP521R1, GroupX448>>

SuiteOrder ==
    <<CipherSuite_TLS_AES_128_GCM_SHA256, CipherSuite_TLS_AES_256_GCM_SHA384,
      CipherSuite_TLS_CHACHA20_POLY1305_SHA256, CipherSuite_TLS_AES_128_CCM_SHA256>>

\* 1.2.3.4, ::1, ::ffff:5.6.7.8 (an IPv4 address in its 16-byte form), 9.8.7.6
AddrOrder ==
    <<<<1, 2, 3, 4>>,
      <<0, 0, 0, 0, 0, 0, 0, 0, 0, 0, 0, 0, 0, 0, 0, 1>>,
      <<0, 0, 0, 0, 0, 0, 0, 0, 0, 0, 255, 255, 5, 6, 7, 8>>,
      <<9, 8, 7, 6>>>>

\* a key share entry of group g with n bytes of key exchange
Entry(g, n) == [Group |-> g, KeyExchange |-> SubSeq(<<171, 172, 173, 174>>, 1, n)]

\* entries of the first n groups, each with l key bytes
RECURSIVE EntriesOf(_, _)
EntriesOf(n, l) ==
    IF n = 0 THEN <<>> ELSE Append(EntriesOf(n - 1, l), Entry(GroupOrder[n], l))

\* the key share lists callers build: none, one entry without key bytes, and
\* n entries of distinct groups with MaxKeyLen key bytes each
KeyLists ==
    {<<Entry(GroupOrder[1], 0)>>}
    \cup {EntriesOf(n, MaxKeyLen) : n \in 0..MaxKeyShares}

SuiteLists == {SubSeq(SuiteOrder, 1, n) : n \in 0..MaxSuites}

AddressLists == {SubSeq(AddrOrder, 1, n) : n \in 0..MaxAddresses}

\* the extension lists callers build: none, or one non-empty Address Set
ExtLists == {<<>>} \cup {<<[Addresses |-> a]>> : a \in AddressLists \ {<<>>}}

\* version and public name of the records callers build: "ab" or no name
\* below, at and above the draft that introduced the name
VersionNames ==
    {<<VersionDraft01, <<>>>>, <<VersionDraft01, <<97, 98>>>>,
     <<VersionDraft03, <<>>>>, <<VersionDraft03, <<97, 98>>>>,
     <<VersionDraft03 + 1, <<97, 98>>>>}

\* a record as a caller builds it, its Checksum field never set
Record(vn, k, cs, e) ==
    [Version |-> vn[1], Checksum |-> <<0, 0, 0, 0>>, PublicName |-> vn[2], Keys |-> k,
     CipherSuites |-> cs, PaddedLength |-> 260,
     NotBefore |-> TimeUnix(Int64Of(1546300800)),
     NotAfter |-> TimeUnix(Int64Of(1546387200)),
     Extensions |-> e]

\* the records whose encodings a peer tampers with: a name, one key share of
\* MaxKeyLen bytes, one cipher suite, no extension
BaseRecords ==
    {Record(<<v, <<97, 98>>>>, <<Entry(GroupOrder[1], MaxKeyLen)>>, <<SuiteOrder[1]>>, <<>>) :
        v \in {VersionDraft01, VersionDraft03}}

\* records decoded earlier and marshalled again: their Checksum field holds
\* what the decode left there
StaleRecords == {[r EXCEPT !.Checksum = <<222, 173, 190, 239>>] : r \in BaseRecords}

\* records whose validity period the caller never set
UnsetPeriodRecords ==
    {[r EXCEPT !.NotBefore = ZeroTime, !.NotAfter = ZeroTime] : r \in BaseRecords}

Records ==
    {Record(vn, k, cs, e) : vn \in VersionNames, k \in KeyLists, cs \in SuiteLists,
                            e \in ExtLists}
    \cup StaleRecords
    \cup UnsetPeriodRecords

\* buffers shorter than the record header
ShortBuffers == {SubSeq(<<255, 2, 1, 2, 3, 4>>, 1, n) : n \in 0..(HeaderLen - 1)}

\* buf with bit i flipped, bit 0 being the top bit of the first byte
FlipBit(buf, i) ==
    LET at == (i \div 8) + 1
        bit == 2 ^ (7 - (i % 8))
    IN [buf EXCEPT ![at] = IF (buf[at] \div bit) % 2 = 1 THEN buf[at] - bit
                           ELSE buf[at] + bit]

\* buf with the checksum a peer computes for it in bytes 2..5
FixChecksum(buf) ==
    LET zeroed == Copy(buf, 2, <<0, 0, 0, 0>>)
    IN Copy(zeroed, 2, Sum256Prefix(zeroed))

\* the wire form of a list of addresses: family tag, then the raw bytes
RECURSIVE WireAddresses(_)
WireAddresses(a) ==
    IF a = <<>> THEN <<>>
    ELSE (IF Len(a[1]) = IPv4len THEN <<4>> ELSE <<6>>) \o a[1] \o WireAddresses(Tail(a))

\* the wire form of an Address Set extension: type identifier, then addresses
WireAddressSet(a) == PutUint16(ExtensionTypeAddressSet) \o WireAddresses(a)

\* extension sections a peer sends: the length prefix declares the whole
\* Address Set extension enc, of which only the first n bytes follow
\* ("extlen"), or the prefix declares n bytes and the n bytes end inside an
\* address ("addr"), or the section is whole ("whole")
ExtTails ==
    UNION {LET enc == WireAddressSet(a)
           IN {[kind |-> "extlen", bytes |-> PutUint16(Len(enc)) \o SubSeq(enc, 1, n)] :
                   n \in 0..(Len(enc) - 1)}
              \cup {[kind |-> "addr", bytes |-> PutUint16(n) \o SubSeq(enc, 1, n)] :
                   n \in {m \in 3..(Len(enc) - 1) :
                            \A j \in 0..Len(a) :
                                m # 2 + Len(WireAddresses(SubSeq(a, 1, j)))}}
              \cup {[kind |-> "whole", bytes |-> PutUint16(Len(enc)) \o enc]} :
           a \in AddressLists \ {<<>>}}

(***************************************************************************)
(* The state machine.  A caller builds a record and marshals it, decodes   *)
(* the bytes it got, and decodes what a peer made of those bytes.          *)
(***************************************************************************)
\* no argument, no returned value
NoArg == [none |-> TRUE]

NoRet == [none |-> TRUE]

Init ==
    /\ ExtensionType_generator = InitGenerator
    /\ ExtensionType_name = InitName
    /\ keys = ZeroKeys
    /\ rec = ZeroKeys
    /\ wire = Nil
    /\ accepted = FALSE
    /\ op = "init"
    /\ arg = NoArg
    /\ ret = NoRet
    /\ err = NoErr
    /\ b = Nil

\* data, err := r.MarshalBinary(), for the first record a caller builds, and
\* for the record of a tampered kind it builds after it has decoded one
MarshalBinary(r) ==
    /\ \/ op = "init"
       \/ /\ op = "Keys.UnmarshalBinary"
          /\ arg.from = "wire"
          /\ accepted
          /\ rec \in BaseRecords
          /\ r \in BaseRecords
    /\ \E m \in {Keys_MarshalBinary(r)} :
          /\ wire' = m.data
          /\ ret' = [data |-> m.data]
          /\ err' = m.err
    /\ rec' = r
    /\ op' = "Keys.MarshalBinary"
    /\ arg' = r
    /\ accepted' = FALSE
    /\ UNCHANGED <<ExtensionType_generator, ExtensionType_name, keys, b>>

\* the buffers handed to UnmarshalBinary, each with where it comes from:
\* a buffer shorter than the header ("short"); the bytes MarshalBinary
\* returned ("wire"); and, made by a peer from bytes the caller accepted,
\* those bytes with bit at flipped ("flip"), their first at bytes ("cut"), and
\* those bytes with their empty extension section replaced by a section a
\* peer sends ("extlen", "addr", "whole"), the last two kinds under the
\* checksum of the result.  A caller also hands in the buffer it has just
\* decoded, as the call left it ("again"), and decodes the bytes of wire into
\* the record that holds an earlier decode ("reuse").
Buffers ==
    IF op = "init"
    THEN {[b |-> buf, from |-> "short", at |-> Len(buf), sum |-> FALSE] : buf \in ShortBuffers}
    ELSE IF op = "Keys.MarshalBinary" /\ err = NoErr
    THEN {[b |-> wire, from |-> "wire", at |-> 0, sum |-> FALSE]}
         \cup (IF keys = ZeroKeys THEN {}
               ELSE {[b |-> wire, from |-> "reuse", at |-> 0, sum |-> FALSE]})
    ELSE IF op = "Keys.UnmarshalBinary" /\ arg.from = "wire"
    THEN {[b |-> b, from |-> "again", at |-> 0, sum |-> FALSE]}
         \cup (IF accepted /\ rec \in BaseRecords
               THEN {[b |-> FlipBit(wire, i), from |-> "flip", at |-> i, sum |-> FALSE] :
                        i \in 0..(8 * Len(wire) - 1)}
                    \cup {[b |-> SubSeq(wire, 1, n), from |-> "cut", at |-> n, sum |-> TRUE] :
                        n \in HeaderLen..(Len(wire) - 1)}
                    \cup {[b |-> SubSeq(wire, 1, Len(wire) - 2) \o t.bytes, from |-> t.kind,
                           at |-> Len(wire) - 2, sum |-> TRUE] : t \in ExtTails}
               ELSE {})
    ELSE IF op = "Keys.UnmarshalBinary" /\ arg.from = "whole" /\ err = NoErr
    THEN {[b |-> wire, from |-> "reuse", at |-> 0, sum |-> FALSE]}
    ELSE {}

\* the record UnmarshalBinary is called on: new(Keys), or the caller's record
\* with what an earlier decode left in it
Destination(from) == IF from = "reuse" THEN keys ELSE ZeroKeys

\* err := k.UnmarshalBinary(x.b), k being new(Keys) or the caller's record
UnmarshalBinary(x) ==
    /\ \E buf \in {IF x.sum THEN FixChecksum(x.b) ELSE x.b} :
          /\ \E u \in {Keys_UnmarshalBinary(Destination(x.from), buf,
                                            ExtensionType_generator)} :
                /\ keys' = u.keys
                /\ b' = u.b
                /\ err' = u.err
                /\ accepted' = IF x.from = "wire" THEN u.err = NoErr ELSE accepted
          /\ arg' = [b |-> buf, from |-> x.from, at |-> x.at]
    /\ op' = "Keys.UnmarshalBinary"
    /\ ret' = NoRet
    /\ UNCHANGED <<ExtensionType_generator, ExtensionType_name, rec, wire>>

Next ==
    \/ \E r \in Records : MarshalBinary(r)
    \/ \E x \in Buffers : UnmarshalBinary(x)

Spec == Init /\ [][Next]_vars

(***************************************************************************)
(* The parts of the codec on their own, and the registry: the operations   *)
(* a caller reaches without a whole record.                                *)
(***************************************************************************)
\* the groups of the entries of a key share byte stream
StreamGroups == {GroupOrder[i] : i \in 1..MaxKeyShares}

\* the entry lists a peer encodes into a key share byte stream, duplicates
\* of a group among them; an entry has no key bytes or MaxKeyLen of them
RECURSIVE EntryStreams(_)
EntryStreams(n) ==
    IF n = 0 THEN {<<>>}
    ELSE EntryStreams(n - 1)
         \cup {Append(es, Entry(g, l)) :
                  es \in {e \in EntryStreams(n - 1) : Len(e) = n - 1},
                  g \in StreamGroups, l \in {0, MaxKeyLen}}

\* the wire form of a list of key share entries: group, key length, key
RECURSIVE WireEntries(_)
WireEntries(es) ==
    IF es = <<>> THEN <<>>
    ELSE PutUint16(es[1].Group) \o PutUint16(Len(es[1].KeyExchange)) \o es[1].KeyExchange
         \o WireEntries(Tail(es))

\* type identifiers the package registers nothing for
OtherTypes == {ExtensionTypeAddressSet + i : i \in 1..MaxExtraTypes} \cup {1024, 8194}

\* the wire form of an extension of type t with the payload p
WireExtension(t, p) == PutUint16(t) \o p

\* the extension lists a peer sends: nothing, one Address Set, and one
\* Address Set followed by an extension of another type
ExtStreams ==
    {[addrs |-> <<>>, other |-> 0, data |-> <<>>]}
    \cup {[addrs |-> a, other |-> 0, data |-> WireAddressSet(a)] :
             a \in AddressLists \ {<<>>}}
    \cup {[addrs |-> a, other |-> t, data |-> WireAddressSet(a) \o WireExtension(t, p)] :
             a \in AddressLists \ {<<>>}, t \in OtherTypes, p \in {<<>>, <<1, 2, 3, 4>>}}

\* the wire form of a list of cipher suites, without its length prefix
RECURSIVE WireSuites(_)
WireSuites(cs) ==
    IF cs = <<>> THEN <<>> ELSE PutUint16(cs[1]) \o WireSuites(Tail(cs))

\* the cipher suite sections a peer sends: a length prefix declaring len
\* bytes, followed by the first have bytes of the suites; and sections that
\* end inside the length prefix
SuiteStreams ==
    LET body == WireSuites(SubSeq(SuiteOrder, 1, MaxSuites))
    IN {[len |-> l, have |-> m, data |-> PutUint16(l) \o SubSeq(body, 1, m)] :
            l \in 0..(Len(body) + 1), m \in 0..Len(body)}
       \cup {[len |-> 0, have |-> 0, data |-> SubSeq(<<0, 2>>, 1, m)] : m \in 0..1}

\* The codec calls below read their input and the registry and nothing else
\* of the state; each is made by a caller whose last call was a registration
\* or a lookup.  Registrations and lookups follow any call.
Registering == op \in {"init", "RegisterExtensionType", "ExtensionType.Generator"}

\* a test that finds no type registered
NeverRegistered(generator, extType) == FALSE

\* _, exists := ExtensionType_generator[extType]
AlreadyRegistered(generator, extType) == extType \in DOMAIN generator

\* RegisterExtensionType(extType, name, generator)
RegisterExtensionType(extType, name, generator) ==
    /\ op' = "RegisterExtensionType"
    /\ arg' = [extType |-> extType, name |-> name, generator |-> generator]
    /\ ret' = NoRet
    /\ IF AlreadyRegistered(ExtensionType_generator, extType)
       THEN /\ err' = PanicWith("extension type already registered")
            /\ UNCHANGED <<ExtensionType_generator, ExtensionType_name>>
       ELSE /\ err' = NoErr
            /\ ExtensionType_name' = (extType :> name) @@ ExtensionType_name
            /\ ExtensionType_generator' = (extType :> generator) @@ ExtensionType_generator
    /\ UNCHANGED <<keys, rec, wire, accepted, b>>

\* gen := extType.Generator(); name := extType.String()
Lookup(extType) ==
    /\ op' = "ExtensionType.Generator"
    /\ arg' = [extType |-> extType]
    /\ ret' = [generator |-> Generator(ExtensionType_generator, extType),
               name |-> ExtensionType_String(ExtensionType_name, extType)]
    /\ err' = NoErr
    /\ UNCHANGED <<ExtensionType_generator, ExtensionType_name, keys, rec, wire, accepted, b>>

\* var list KeyShareEntryList; err := list.UnmarshalBinary(data)
KeyShareEntryListUnmarshalBinary(es) ==
    /\ Registering
    /\ \E r \in {KeyShareEntryList_UnmarshalBinary(<<>>, WireEntries(es))} :
          /\ ret' = [entries |-> r.list]
          /\ err' = r.err
    /\ op' = "KeyShareEntryList.UnmarshalBinary"
    /\ arg' = [entries |-> es, data |-> WireEntries(es)]
    /\ UNCHANGED <<ExtensionType_generator, ExtensionType_name, keys, rec, wire, accepted, b>>

\* data := set.MarshalBinary()
AddressSetMarshalBinary(a) ==
    /\ Registering
    /\ op' = "AddressSet.MarshalBinary"
    /\ arg' = [Addresses |-> a]
    /\ ret' = [data |-> AddressSet_MarshalBinary([Addresses |-> a])]
    /\ err' = NoErr
    /\ UNCHANGED <<ExtensionType_generator, ExtensionType_name, keys, rec, wire, accepted, b>>

\* err := new(AddressSet).UnmarshalBinary(data), data the wire form of a
AddressSetUnmarshalBinary(a) ==
    /\ Registering
    /\ \E r \in {AddressSet_UnmarshalBinary([Addresses |-> <<>>], WireAddresses(a))} :
          /\ ret' = r.set
          /\ err' = r.err
    /\ op' = "AddressSet.UnmarshalBinary"
    /\ arg' = [addrs |-> a, data |-> WireAddresses(a)]
    /\ UNCHANGED <<ExtensionType_generator, ExtensionType_name, keys, rec, wire, accepted, b>>

\* data, err := list.MarshalBinary()
ExtensionListMarshalBinary(list) ==
    /\ Registering
    /\ op' = "ExtensionList.MarshalBinary"
    /\ arg' = [exts |-> list]
    /\ ret' = [data |-> ExtensionList_MarshalBinary(list)]
    /\ err' = NoErr
    /\ UNCHANGED <<ExtensionType_generator, ExtensionType_name, keys, rec, wire, accepted, b>>

\* var list ExtensionList; err := list.UnmarshalBinary(x.data)
ExtensionListUnmarshalBinary(x) ==
    /\ Registering
    /\ \E r \in {ExtensionList_UnmarshalBinary(<<>>, x.data, ExtensionType_generator)} :
          /\ ret' = [exts |-> r.list]
          /\ err' = r.err
    /\ op' = "ExtensionList.UnmarshalBinary"
    /\ arg' = x
    /\ UNCHANGED <<ExtensionType_generator, ExtensionType_name, keys, rec, wire, accepted, b>>

\* err := k.marshalCipherSuites(buffer), k holding the suites cs
marshalCipherSuites(cs) ==
    /\ Registering
    /\ \E r \in {Keys_marshalCipherSuites([ZeroKeys EXCEPT !.CipherSuites = cs])} :
          /\ ret' = [data |-> r.out]
          /\ err' = r.err
    /\ op' = "Keys.marshalCipherSuites"
    /\ arg' = [suites |-> cs]
    /\ UNCHANGED <<ExtensionType_generator, ExtensionType_name, keys, rec, wire, accepted, b>>

\* err := new(Keys).unmarshalCipherSuites(bytes.NewReader(x.data))
unmarshalCipherSuites(x) ==
    /\ Registering
    /\ \E r \in {Keys_unmarshalCipherSuites(ZeroKeys, x.data, 0)} :
          /\ ret' = [suites |-> r.keys.CipherSuites]
          /\ err' = r.err
    /\ op' = "Keys.unmarshalCipherSuites"
    /\ arg' = x
    /\ UNCHANGED <<ExtensionType_generator, ExtensionType_name, keys, rec, wire, accepted, b>>

NextCodec ==
    \/ \E t \in {ExtensionTypeAddressSet + i : i \in 0..MaxExtraTypes},
          name \in {"address_set", "other"}, generator \in {NewAddressSet, OtherGenerator} :
          RegisterExtensionType(t, name, generator)
    \/ \E t \in {ExtensionTypeAddressSet + i : i \in 0..MaxExtraTypes} : Lookup(t)
    \/ \E es \in EntryStreams(MaxStream) : KeyShareEntryListUnmarshalBinary(es)
    \/ \E a \in AddressLists : AddressSetMarshalBinary(a)
    \/ \E a \in AddressLists : AddressSetUnmarshalBinary(a)
    \/ \E list \in ExtLists : ExtensionListMarshalBinary(list)
    \/ \E x \in ExtStreams : ExtensionListUnmarshalBinary(x)
    \/ \E cs \in SuiteLists : marshalCipherSuites(cs)
    \/ \E x \in SuiteStreams : unmarshalCipherSuites(x)

SpecCodec == Init /\ [][NextCodec]_vars

(***************************************************************************)
(* The properties.  Those of the record codec are about Spec, those of the *)
(* list, extension and cipher suite codecs about SpecCodec.                *)
(***************************************************************************)
\* a validly constructed record: one or more key shares of distinct groups,
\* a name of 1..255 bytes exactly when the version carries one, whole-second
\* timestamps, and Address Sets that are not empty
ValidRecord(r) ==
    /\ Len(r.Keys) >= 1
    /\ \A i, j \in 1..Len(r.Keys) : i # j => r.Keys[i].Group # r.Keys[j].Group
    /\ r.Version >= VersionDraft03 => Len(r.PublicName) \in 1..255
    /\ r.Version < VersionDraft03 => r.PublicName = <<>>
    /\ r.NotBefore # ZeroTime /\ r.NotAfter # ZeroTime
    /\ \A i \in 1..Len(r.Extensions) : r.Extensions[i].Addresses # <<>>

\* C1, as the specification states it: decoding the bytes MarshalBinary
\* returned for a validly constructed record succeeds and yields a record
\* equal to the marshalled one in every field, its checksum the one on the
\* wire.
C1_RoundTrip ==
    (op = "Keys.UnmarshalBinary" /\ arg.from = "wire" /\ ValidRecord(rec))
        => (err = NoErr /\ keys = [rec EXCEPT !.Checksum = SubSeq(wire, 3, 6)])

\* C2: decoding an accepted buffer with one bit flipped outside bytes 2..5
\* fails with ErrChecksumMismatch, and with nothing else.
C2_ChecksumSensitivity ==
    (op = "Keys.UnmarshalBinary" /\ arg.from = "flip" /\ accepted
     /\ arg.at \notin (8 * 2)..(8 * HeaderLen - 1))
        => err = New(ErrChecksumMismatch)

\* a flipped bit in the last byte of an accepted buffer has been refused
C2_Witness ==
    /\ op = "Keys.UnmarshalBinary"
    /\ arg.from = "flip"
    /\ accepted
    /\ arg.at = 8 * Len(wire) - 1
    /\ err = New(ErrChecksumMismatch)

\* the key share section of the record r as it goes on the wire
KeyShareSection(r) == PutUint16(Len(WireEntries(r.Keys))) \o WireEntries(r.Keys)

\* C5: marshalling a record with key shares writes the name section, one
\* length byte and the name, right after the header exactly when the version
\* is VersionDraft03 or above; below it the key share section starts at byte
\* 6 whatever the name is; at or above it an empty name is an error and no
\* bytes are returned.
C5_VersionGating ==
    (op = "Keys.MarshalBinary" /\ Len(rec.Keys) > 0) =>
        /\ rec.Version < VersionDraft03 =>
              /\ err = NoErr
              /\ SubSeq(ret.data, HeaderLen + 1, HeaderLen + Len(KeyShareSection(rec)))
                    = KeyShareSection(rec)
        /\ (rec.Version >= VersionDraft03 /\ rec.PublicName = <<>>) =>
              /\ err # NoErr
              /\ ~IsPanic(err)
              /\ ret.data = Nil
        /\ (rec.Version >= VersionDraft03 /\ rec.PublicName # <<>>) =>
              /\ err = NoErr
              /\ SubSeq(ret.data, HeaderLen + 1, HeaderLen + 1 + Len(rec.PublicName))
                    = <<Len(rec.PublicName)>> \o rec.PublicName
              /\ SubSeq(ret.data, HeaderLen + 2 + Len(rec.PublicName),
                        HeaderLen + 1 + Len(rec.PublicName) + Len(KeyShareSection(rec)))
                    = KeyShareSection(rec)

\* a record of a version below VersionDraft03 that has a name was marshalled
C5_Witness ==
    /\ op = "Keys.MarshalBinary"
    /\ rec.Version < VersionDraft03
    /\ rec.PublicName # <<>>
    /\ Len(rec.Keys) > 0
    /\ err = NoErr

\* C8: bytes 2..5 of what MarshalBinary returns are the first four bytes of
\* the SHA-256 digest of the returned bytes with bytes 2..5 zeroed, and a
\* record whose Checksum field held a value marshals to the bytes of the same
\* record with the field zero.
C8_ChecksumSelfConsistent ==
    (op = "Keys.MarshalBinary" /\ err = NoErr) =>
        /\ SubSeq(ret.data, 3, HeaderLen) = Sum256Prefix(Copy(ret.data, 2, <<0, 0, 0, 0>>))
        /\ rec.Checksum # <<0, 0, 0, 0>> =>
              ret.data = Keys_MarshalBinary([rec EXCEPT !.Checksum = <<0, 0, 0, 0>>]).data

\* a record whose Checksum field held a value was marshalled
C8_Witness ==
    /\ op = "Keys.MarshalBinary"
    /\ err = NoErr
    /\ rec.Checksum # <<0, 0, 0, 0>>
    /\ SubSeq(ret.data, 3, HeaderLen) # rec.Checksum

\* C9, as the specification states it: UnmarshalBinary of a buffer of 0 to 5
\* bytes returns an error; it neither succeeds nor panics.
C9_ShortHeaderIsError ==
    (op = "Keys.UnmarshalBinary" /\ arg.from = "short")
        => (err # NoErr /\ ~IsPanic(err))

\* where the name, key share and cipher suite sections of the wire form of
\* the record r end
NameEnd(r) == HeaderLen + (IF r.Version >= VersionDraft03 THEN 1 + Len(r.PublicName) ELSE 0)

KeysEnd(r) == NameEnd(r) + Len(KeyShareSection(r))

SuitesEnd(r) == KeysEnd(r) + 2 + 2 * Len(r.CipherSuites)

\* whether the first n bytes of the wire form of r end inside the body of a
\* length-prefixed section, the length prefix whole
CutsSection(r, n) ==
    \/ r.Version >= VersionDraft03 /\ HeaderLen + 1 <= n /\ n < NameEnd(r)
    \/ NameEnd(r) + 2 <= n /\ n < KeysEnd(r)
    \/ KeysEnd(r) + 2 <= n /\ n < SuitesEnd(r)

\* C10, as the specification states it: a buffer of correct checksum in
\* which a declared length exceeds the bytes that remain (a section cut
\* short, an extension section shorter than its prefix, an address shorter
\* than its family tag implies) is refused with an error.
C10_TruncationIsError ==
    (/\ op = "Keys.UnmarshalBinary"
     /\ \/ arg.from \in {"extlen", "addr"}
        \/ arg.from = "cut" /\ CutsSection(rec, arg.at))
        => (err # NoErr /\ ~IsPanic(err))

\* whether two entries of the list es have the same group
HasDuplicateGroup(es) ==
    \E i, j \in 1..Len(es) : i < j /\ es[i].Group = es[j].Group

\* C3, as the specification states it: a key share byte stream with two
\* entries of the same group is refused with the duplicate error, and the
\* caller's list stays empty.
C3_DuplicateRejected ==
    (op = "KeyShareEntryList.UnmarshalBinary" /\ HasDuplicateGroup(arg.entries))
        => (err = New("duplicate key share group") /\ ret.entries = <<>>)

\* C4, as the specification states it: an extension list of one Address Set
\* followed by an extension of a type that is not registered is refused with
\* ErrUnsupportedExtensionType, and the caller's list stays empty.
C4_UnknownExtensionHalts ==
    (/\ op = "ExtensionList.UnmarshalBinary"
     /\ arg.other # 0
     /\ arg.other \notin DOMAIN ExtensionType_generator)
        => (/\ err # NoErr
            /\ ~IsPanic(err)
            /\ Cause(err) = ErrUnsupportedExtensionType
            /\ ret.exts = <<>>)

\* C6, as the specification states it: AddressSet.MarshalBinary returns the
\* family tag and the raw bytes of each address in list order and nothing
\* else, Size() bytes in all, and UnmarshalBinary of those bytes yields the
\* addresses in order.
C6_AddressSetCodec ==
    /\ op = "AddressSet.MarshalBinary" =>
          /\ ret.data = WireAddresses(arg.Addresses)
          /\ Len(ret.data) = AddressSet_Size(arg)
    /\ op = "AddressSet.UnmarshalBinary" =>
          /\ err = NoErr
          /\ ret.Addresses = arg.addrs

\* C7: marshalCipherSuites writes twice the number of suites as two
\* big-endian bytes and then each suite as two big-endian bytes, in order;
\* unmarshalCipherSuites refuses an odd length with the invalid-size error,
\* refuses a length of more than the bytes that remain, and otherwise
\* yields length/2 suites in wire order.
C7_CipherSuiteCodec ==
    /\ op = "Keys.marshalCipherSuites" =>
          /\ err = NoErr
          /\ ret.data = <<(2 * Len(arg.suites)) \div 256, (2 * Len(arg.suites)) % 256>>
                           \o WireSuites(arg.suites)
          /\ arg.suites = <<4865, 4866>> => ret.data = <<0, 4, 19, 1, 19, 2>>
    /\ op = "Keys.unmarshalCipherSuites" =>
          /\ Len(arg.data) < 2 => (err # NoErr /\ ~IsPanic(err))
          /\ (Len(arg.data) >= 2 /\ arg.len % 2 = 1) =>
                err = New("invalid cipher suite list size")
          /\ (Len(arg.data) >= 2 /\ arg.len % 2 = 0 /\ arg.have < arg.len) =>
                (err # NoErr /\ ~IsPanic(err))
          /\ (Len(arg.data) >= 2 /\ arg.len % 2 = 0 /\ arg.have >= arg.len) =>
                (err = NoErr /\ ret.suites = SubSeq(SuiteOrder, 1, arg.len \div 2))
          /\ arg.data = <<0, 5, 19, 1, 19>> => err = New("invalid cipher suite list size")

\* the section 00 05 13 01 13 was refused for its odd length
C7_Witness ==
    /\ op = "Keys.unmarshalCipherSuites"
    /\ arg.data = <<0, 5, 19, 1, 19>>
    /\ err = New("invalid cipher suite list size")

\* C11, as the specification states it: when UnmarshalBinary on new(Keys)
\* returns ErrChecksumMismatch, the record is as it was before the call: no
\* field, Version and Checksum included, holds bytes of the refused buffer.
C11_NoPartialRecordOnMismatch ==
    (op = "Keys.UnmarshalBinary" /\ arg.from # "reuse" /\ err = New(ErrChecksumMismatch))
        => keys = ZeroKeys

\* C12, as the specification states it: after UnmarshalBinary(b) returns the
\* caller's buffer is byte for byte what was passed in, and decoding the
\* buffer the call left behind a second time ends as the first decode did.
C12_InputUnchanged ==
    op = "Keys.UnmarshalBinary" =>
        /\ b = arg.b
        /\ arg.from = "again" => ((err = NoErr) <=> accepted)

\* where the extension section of the wire form of the record r starts: after
\* the cipher suites, the padded length and the two timestamps
ExtensionsStart(r) == SuitesEnd(r) + 2 + 8 + 8

\* the wire form of an extension list: type identifier and payload of each
\* extension, in list order
RECURSIVE WireExtensions(_)
WireExtensions(list) ==
    IF list = <<>> THEN <<>>
    ELSE WireAddressSet(list[1].Addresses) \o WireExtensions(Tail(list))

\* C14, as the specification states it: for a record with extensions, the
\* two bytes at the start of the extension section hold the sum of 2 +
\* payload length over the extensions, that many bytes follow them to the end
\* of the buffer, and those bytes are the type identifier and payload of each
\* extension in list order.
C14_ExtensionLengthPrefix ==
    (op = "Keys.MarshalBinary" /\ err = NoErr /\ rec.Extensions # <<>>) =>
        /\ SubSeq(ret.data, ExtensionsStart(rec) + 1, ExtensionsStart(rec) + 2)
              = PutUint16(ExtensionList_Size(rec.Extensions))
        /\ Len(ret.data) - (ExtensionsStart(rec) + 2) = ExtensionList_Size(rec.Extensions)
        /\ SliceFrom(ret.data, ExtensionsStart(rec) + 2) = WireExtensions(rec.Extensions)

\* C16, as the specification states it: when a buffer decodes into new(Keys),
\* decoding it into a record that holds an earlier decode succeeds as well
\* and leaves every field as the decode into new(Keys) does.
C16_ResultDependsOnBytesAlone ==
    (op = "Keys.UnmarshalBinary" /\ arg.from = "reuse") =>
        \A fresh \in {Keys_UnmarshalBinary(ZeroKeys, arg.b, ExtensionType_generator)} :
            fresh.err = NoErr => (err = NoErr /\ keys = fresh.keys)

\* C13: in every step, each registered type keeps the name and constructor
\* it has; a RegisterExtensionType of a registered type panics and changes
\* neither table; and a lookup or a decode changes neither table and never
\* ends in the panic of a registration.
C13_WriteOnceRegistry ==
    [][/\ \A t \in DOMAIN ExtensionType_generator :
              /\ t \in DOMAIN ExtensionType_generator'
              /\ ExtensionType_generator'[t] = ExtensionType_generator[t]
              /\ t \in DOMAIN ExtensionType_name'
              /\ ExtensionType_name'[t] = ExtensionType_name[t]
       /\ (op' = "RegisterExtensionType"
           /\ arg'.extType \in DOMAIN ExtensionType_generator) =>
              /\ err' = PanicWith("extension type already registered")
              /\ UNCHANGED <<ExtensionType_generator, ExtensionType_name>>
       /\ op' # "RegisterExtensionType" =>
              /\ UNCHANGED <<ExtensionType_generator, ExtensionType_name>>
              /\ err' # PanicWith("extension type already registered")
       /\ op' = "ExtensionType.Generator" =>
              ret' = [generator |-> IF arg'.extType \in DOMAIN ExtensionType_generator
                                    THEN ExtensionType_generator[arg'.extType]
                                    ELSE NilGenerator,
                      name |-> IF arg'.extType \in DOMAIN ExtensionType_name
                               THEN ExtensionType_name[arg'.extType]
                               ELSE "UNKNOWN"]]_vars

\* a registration of a registered type under another name and constructor
\* has panicked, and the type still has the name and constructor it had
C13_Witness ==
    /\ op = "RegisterExtensionType"
    /\ err = PanicWith("extension type already registered")
    /\ arg.extType # ExtensionTypeAddressSet
    /\ ExtensionType_name[arg.extType] # arg.name
    /\ ExtensionType_generator[arg.extType] # arg.generator

\* C15, as the specification states it: the concatenated encodings of two or
\* more entries of distinct groups decode to those entries in wire order,
\* the cursor moving by 4 + key length, the encoded size, after each.
C15_DecodeCursor ==
    (/\ op = "KeyShareEntryList.UnmarshalBinary"
     /\ Len(arg.entries) >= 2
     /\ ~HasDuplicateGroup(arg.entries)) =>
        /\ err = NoErr
        /\ ret.entries = arg.entries
        /\ \A i \in 1..Len(arg.entries) :
              KeyShareEntryList_Advance(arg.entries[i])
                  = Len(KeyShareEntry_MarshalBinary(arg.entries[i]).data)

====
